---- MODULE Spec2Model ----
(***************************************************************************)
(* Model of ulanzi_election_display.py: the polling loop (main), the       *)
(* parser (process_election_data), the renderers (generate_bar_chart,      *)
(* generate_text_message), the assembler (generate_ulanzi_packet) and the  *)
(* MQTT publish step (send_to_ulanzi).                                     *)
(*                                                                         *)
(* JSON objects are functions from key strings to values; an absent key is *)
(* a key outside the DOMAIN.  Python lists are sequences (index 0 of the   *)
(* source is index 1 here).  A call that can raise yields either           *)
(* Return(v) or Raise(e).                                                  *)
(***************************************************************************)
EXTENDS Integers, Sequences, FiniteSets, TLC

VARIABLES pc, election_data, processed_data, message, exc, connected, leaked,
          published, handed, delay, party_data, threshold, bar_chart

vars == <<pc, election_data, processed_data, message, exc, connected, leaked,
          published, handed, delay, party_data, threshold, bar_chart>>

-----------------------------------------------------------------------------
(* Bounds of the explored inputs. *)

\* longest results list of a fetched document
MaxResults == 2

\* longest party list handed to generate_bar_chart on its own
MaxParties == 4

-----------------------------------------------------------------------------
(* Python values. *)

\* the empty dict {}
EmptyDict == <<>>

\* None where a string is expected (party ids, the pending exception)
None == "None"

\* None where an object is expected (the result of process_election_data)
NoData == [none |-> TRUE]

\* a local that has not been assigned in the current cycle
Unset == [unset |-> TRUE]

\* dict.get(k, default)
Get(d, k, default) == IF k \in DOMAIN d THEN d[k] ELSE default

\* dict.get(k) of a list-valued key, tested for truth: absent (None) and []
\* are false, a non-empty list is true
TruthyList(d, k) == k \in DOMAIN d /\ Len(d[k]) > 0

\* truth value of a dict or None as found by next(..., None)
TruthyDict(d) == DOMAIN d # {}

Return(v) == [raised |-> FALSE, value |-> v]

Raise(e) == [raised |-> TRUE, exc |-> e]

-----------------------------------------------------------------------------
(* The raw documents the fetch collaborator can deliver. *)

PartyIds == {"p1", "p2"}

Percentages == {0, 5, 7}

\* the shapes of a result entry's "percent" key: absent, [], [{}] (no
\* value), [{"value": {}}] is covered by [{}], [{"value": {"absolute": v}}]
PercentShapes ==
    {EmptyDict, [percent |-> <<>>], [percent |-> <<EmptyDict>>]}
        \cup {[percent |-> <<[value |-> [absolute |-> v]]>>] : v \in Percentages}

ResultEntries ==
    {[target |-> "parties", target_id |-> i] @@ p : i \in PartyIds, p \in PercentShapes}
        \cup {[target |-> "candidates", target_id |-> "p1",
               percent |-> <<[value |-> [absolute |-> 7]]>>]}

SeqsUpTo(S, n) == UNION {[1..k -> S] : k \in 0..n}

ResultLists == SeqsUpTo(ResultEntries, MaxResults)

\* catalog entries: complete, without abbreviation and color, and a second
\* entry that repeats the id p1
P1 == [id |-> "p1", abbreviation |-> "A", color |-> "FF0000"]

P2 == [id |-> "p2"]

P1b == [id |-> "p1", abbreviation |-> "B", color |-> "0000FF"]

Catalogs == {<<>>, <<P1>>, <<P2, P1b, P1>>}

\* status_date strings: two that dateutil parses (one with a UTC offset,
\* one naive) and one it rejects
AwareDate == "2025-01-01T12:34:00+01:00"

NaiveDate == "2025-01-01T23:50:00"

BadDate == "half past noon-ish"

StatusDates == {"", AwareDate, NaiveDate, BadDate}

Latests ==
    {[results |-> r] : r \in ResultLists}
        \cup {[results |-> r, status_date |-> s] : r \in ResultLists, s \in StatusDates}

Elections ==
    {EmptyDict, [contest |-> <<>>], [contest |-> <<EmptyDict>>],
     [contest |-> <<[results_overall |-> EmptyDict]>>]}
        \cup {[contest |-> <<[results_overall |-> [latest |-> l]]>>] : l \in Latests}

RawDocuments ==
    {[parties |-> c] : c \in Catalogs}
        \cup {[election |-> e, parties |-> c] : e \in Elections, c \in Catalogs}

-----------------------------------------------------------------------------
(* process_election_data *)

\* dateutil.parser.parse: the datetime of a string it accepts.  utcoffset is
\* in minutes and read only when the datetime is aware.
ParseTable ==
    (AwareDate :> [hour |-> 12, minute |-> 34, utcoffset |-> 60, aware |-> TRUE])
        @@ (NaiveDate :> [hour |-> 23, minute |-> 50, utcoffset |-> 0, aware |-> FALSE])

\* a parser that makes something of every string
parser_parse_fuzzy(s) ==
    IF s \in DOMAIN ParseTable THEN Return(ParseTable[s]) ELSE Return(ParseTable[NaiveDate])

parser_parse(s) ==
    IF s \in DOMAIN ParseTable THEN Return(ParseTable[s]) ELSE Raise("ParserError")

\* next((p for p in data.get("parties", []) if p.get("id") == party_id), None)
RECURSIVE FindParty(_, _)
FindParty(catalog, party_id) ==
    IF Len(catalog) = 0 THEN EmptyDict
    ELSE IF Get(Head(catalog), "id", None) = party_id THEN Head(catalog)
    ELSE FindParty(Tail(catalog), party_id)

\* result.get("percent", [{}])[0].get("value", {}).get("absolute", 0)
PercentAbsolute(result) ==
    Get(Get(Get(result, "percent", <<EmptyDict>>)[1], "value", EmptyDict), "absolute", 0)

\* the PartyResult built at lines 76-82
MakePartyResult(party, result) ==
    [name |-> Get(party, "abbreviation", ""),
     percentage |-> PercentAbsolute(result),
     color |-> Get(party, "color", "000000")]

\* the loop body without the test of the target
AppendResultAnyTarget(parties, result, data) ==
    LET party_id == Get(result, "target_id", None)
        party == FindParty(Get(data, "parties", <<>>), party_id)
    IN IF TruthyList(result, "percent") /\ TruthyDict(party)
       THEN Append(parties, MakePartyResult(party, result))
       ELSE parties

\* the body of the for loop for one result: the list after the iteration
AppendResult(parties, result, data) ==
    IF Get(result, "target", None) = "parties"
    THEN LET party_id == Get(result, "target_id", None)
             party == FindParty(Get(data, "parties", <<>>), party_id)
         IN IF TruthyList(result, "percent")
            THEN IF TruthyDict(party)
                 THEN Append(parties, MakePartyResult(party, result))
                 ELSE parties
            ELSE parties
    ELSE parties

\* the for loop of lines 67-83
RECURSIVE CollectParties(_, _, _)
CollectParties(parties, results, data) ==
    IF Len(results) = 0 THEN parties
    ELSE CollectParties(AppendResult(parties, Head(results), data), Tail(results), data)

\* an ordering that puts x in front of the entries of its own key
RECURSIVE InsertDescUnstable(_, _)
InsertDescUnstable(sorted, x) ==
    IF Len(sorted) = 0 THEN <<x>>
    ELSE IF Head(sorted).percentage > x.percentage
         THEN <<Head(sorted)>> \o InsertDescUnstable(Tail(sorted), x)
         ELSE <<x>> \o sorted

\* the position list.sort(key=percentage, reverse=True) gives x among the
\* already ordered entries: behind every entry whose key is not smaller
RECURSIVE InsertDesc(_, _)
InsertDesc(sorted, x) ==
    IF Len(sorted) = 0 THEN <<x>>
    ELSE IF Head(sorted).percentage >= x.percentage
         THEN <<Head(sorted)>> \o InsertDesc(Tail(sorted), x)
         ELSE <<x>> \o sorted

\* parties.sort(key=lambda x: x.percentage, reverse=True): a stable sort
RECURSIVE SortDesc(_)
SortDesc(parties) ==
    IF Len(parties) = 0 THEN <<>>
    ELSE InsertDesc(SortDesc(SubSeq(parties, 1, Len(parties) - 1)), parties[Len(parties)])

process_election_data(data) ==
    LET election == Get(data, "election", EmptyDict)
        contests == Get(election, "contest", <<EmptyDict>>)
    IN IF Len(contests) = 0 THEN Raise("IndexError")
       ELSE LET contest == contests[1]
                latest == Get(Get(contest, "results_overall", EmptyDict), "latest", EmptyDict)
                results == Get(latest, "results", <<>>)
                status_date == Get(latest, "status_date", "")
            IN IF status_date = "" THEN Return(NoData)
               ELSE LET parsed == parser_parse(status_date)
                    IN IF parsed.raised THEN parsed
                       ELSE Return([timestamp |-> parsed.value,
                                    parties |-> SortDesc(CollectParties(<<>>, results, data))])

-----------------------------------------------------------------------------
(* generate_bar_chart *)

display_width == 20

display_height == 8

\* max(party_data, key=lambda x: x.percentage).percentage
MaxPercentage(parties) ==
    CHOOSE m \in {parties[i].percentage : i \in 1..Len(parties)} :
        \A i \in 1..Len(parties) : parties[i].percentage <= m

\* the width rounded down
BarWidthFloor(percentage, max_percentage) ==
    (percentage * display_width) \div max_percentage

\* math.ceil((percentage / max_percentage) * display_width) for
\* 0 <= percentage <= max_percentage and max_percentage > 0
BarWidth(percentage, max_percentage) ==
    (percentage * display_width + max_percentage - 1) \div max_percentage

\* green from the threshold on
IndicatorColorAtLeast(percentage, limit) ==
    IF percentage >= limit THEN "00FF00" ELSE "FF0000"

\* the indicator colour chosen at line 119
IndicatorColor(percentage, limit) ==
    IF percentage > limit THEN "00FF00" ELSE "FF0000"

\* the two rectangles appended for party i (0-based, as enumerate counts)
PartyRectangles(i, result, bar_height, max_percentage, limit) ==
    LET bar_width == BarWidth(result.percentage, max_percentage)
        top_left_x == 0
        top_left_y == i * bar_height
    IN <<[df |-> <<top_left_x, top_left_y, bar_width, bar_height, result.color>>],
         [df |-> <<bar_width, top_left_y, 1, bar_height,
                   IndicatorColor(result.percentage, limit)>>]>>

\* the for loop of lines 110-122, from party i on
RECURSIVE BarLoop(_, _, _, _, _)
BarLoop(parties, i, bar_height, max_percentage, limit) ==
    IF i >= Len(parties) THEN <<>>
    ELSE PartyRectangles(i, parties[i + 1], bar_height, max_percentage, limit)
             \o BarLoop(parties, i + 1, bar_height, max_percentage, limit)

generate_bar_chart(parties, limit) ==
    IF Len(parties) = 0 THEN Return(<<>>)
    ELSE LET bar_height == display_height \div Len(parties)
             max_percentage == MaxPercentage(parties)
         IN IF max_percentage = 0 THEN Raise("ZeroDivisionError")
            ELSE Return(<<[df |-> <<0, 0, display_width, display_height, "000000">>]>>
                            \o BarLoop(parties, 0, bar_height, max_percentage, limit))

-----------------------------------------------------------------------------
(* generate_text_message, generate_ulanzi_packet *)

\* UTC offsets, in minutes, of the time zones the process may run in
LocalOffsets == {0, 120}

MinutesPerDay == 1440

Digit == <<"0", "1", "2", "3", "4", "5", "6", "7", "8", "9">>

\* a number below 100 as strftime prints it for %H and %M
TwoDigits(n) == Digit[(n \div 10) + 1] \o Digit[(n % 10) + 1]

\* timestamp.astimezone(): minute of the day in the local zone; a naive
\* datetime is taken to be local time already
astimezone(timestamp, local_offset) ==
    LET minute_of_day == timestamp.hour * 60 + timestamp.minute
    IN IF timestamp.aware
       THEN (minute_of_day - timestamp.utcoffset + local_offset) % MinutesPerDay
       ELSE minute_of_day

\* strftime("%H:%M")
strftime(minute_of_day) ==
    TwoDigits(minute_of_day \div 60) \o ":" \o TwoDigits(minute_of_day % 60)

RECURSIVE TextLoop(_)
TextLoop(parties) ==
    IF Len(parties) = 0 THEN <<>>
    ELSE <<[t |-> Head(parties).name \o " ", c |-> Head(parties).color]>>
             \o TextLoop(Tail(parties))

generate_text_message(data, local_offset) ==
    <<[t |-> strftime(astimezone(data.timestamp, local_offset)) \o " ", c |-> "FFFFFF"]>>
        \o TextLoop(data.parties)

\* the threshold generate_ulanzi_packet passes to generate_bar_chart
PacketThreshold == 5

TextOffset == 8

generate_ulanzi_packet(data, local_offset) ==
    LET chart == generate_bar_chart(data.parties, PacketThreshold)
    IN IF chart.raised THEN chart
       ELSE Return([draw |-> chart.value,
                    text |-> generate_text_message(data, local_offset),
                    textOffset |-> TextOffset])

\* the message main prepares before it looks at the parsed data
NoDataMessage == [text |-> <<[t |-> "No data", c |-> "FF0000"]>>]

-----------------------------------------------------------------------------
(* main and send_to_ulanzi *)

SleepSeconds == 300

\* the classes of each exception the calls of the try block can raise
Bases ==
    ("Exception" :> {"Exception"})
        @@ ("IndexError" :> {"IndexError", "LookupError", "Exception"})
        @@ ("ParserError" :> {"ParserError", "ValueError", "Exception"})
        @@ ("ZeroDivisionError" :> {"ZeroDivisionError", "ArithmeticError", "Exception"})
        @@ ("OSError" :> {"OSError", "Exception"})
        @@ ("ValueError" :> {"ValueError", "Exception"})

\* a clause that catches connection errors only
ExceptOSError(e) == "OSError" \in Bases[e]

\* the except clause of line 197
ExceptClause(e) == "Exception" \in Bases[e]

\* an exception raised inside the try block
Throw(e) ==
    /\ exc' = e
    /\ pc' = IF ExceptClause(e) THEN "except" ELSE "terminated"

Init ==
    /\ pc = "fetch"
    /\ election_data = Unset
    /\ processed_data = Unset
    /\ message = Unset
    /\ exc = None
    /\ connected = FALSE
    /\ leaked = FALSE
    /\ published = <<>>
    /\ handed = <<>>
    /\ delay = 0
    /\ party_data = <<>>
    /\ threshold = PacketThreshold
    /\ bar_chart = Unset

\* line 186
Fetch ==
    /\ pc = "fetch"
    /\ delay' = 0
    /\ \/ \E doc \in RawDocuments :
             /\ election_data' = doc
             /\ pc' = "process"
             /\ exc' = exc
       \/ /\ Throw("Exception")
          /\ election_data' = election_data
    /\ UNCHANGED <<processed_data, message, connected, leaked, published, handed,
                   party_data, threshold, bar_chart>>

\* lines 188-193
Process ==
    /\ pc = "process"
    /\ LET r == process_election_data(election_data)
       IN IF r.raised
          THEN /\ Throw(r.exc)
               /\ UNCHANGED <<processed_data, message>>
          ELSE /\ processed_data' = r.value
               /\ message' = NoDataMessage
               /\ pc' = IF r.value = NoData THEN "send" ELSE "generate"
               /\ exc' = exc
    /\ UNCHANGED <<election_data, connected, leaked, published, handed, delay,
                   party_data, threshold, bar_chart>>

\* line 191
Generate ==
    /\ pc = "generate"
    /\ party_data' = processed_data.parties
    /\ threshold' = PacketThreshold
    /\ bar_chart' = generate_bar_chart(processed_data.parties, PacketThreshold)
    /\ \E local_offset \in LocalOffsets :
          LET r == generate_ulanzi_packet(processed_data, local_offset)
          IN IF r.raised
             THEN /\ Throw(r.exc)
                  /\ message' = message
             ELSE /\ message' = r.value
                  /\ pc' = "send"
                  /\ exc' = exc
    /\ UNCHANGED <<election_data, processed_data, connected, leaked, published,
                   handed, delay>>

\* line 195 and send_to_ulanzi up to conn.connect
Connect ==
    /\ pc = "send"
    /\ handed' = Append(handed, message)
    /\ \/ /\ connected' = TRUE
          /\ pc' = "loop_forever"
          /\ exc' = exc
       \/ /\ Throw("OSError")
          /\ connected' = connected
    /\ UNCHANGED <<election_data, processed_data, message, leaked, published,
                   delay, party_data, threshold, bar_chart>>

\* conn.loop_forever: the broker acknowledges and on_connect runs
OnConnect ==
    /\ pc = "loop_forever"
    /\ connected' = FALSE
    /\ \/ /\ published' = Append(published, message)
          /\ pc' = "sleep"
          /\ exc' = exc
          /\ leaked' = leaked
       \/ /\ Throw("ValueError")
          /\ leaked' = TRUE
          /\ published' = published
    /\ UNCHANGED <<election_data, processed_data, message, handed, delay,
                   party_data, threshold, bar_chart>>

\* requests.get and loop_forever have no timeout
Hang ==
    /\ pc \in {"fetch", "loop_forever"}
    /\ pc' = "hung"
    /\ UNCHANGED <<election_data, processed_data, message, exc, connected, leaked,
                   published, handed, delay, party_data, threshold, bar_chart>>

\* the socket of a client that nothing refers to any more is closed when the
\* interpreter collects it
Finalize ==
    /\ leaked
    /\ leaked' = FALSE
    /\ UNCHANGED <<pc, election_data, processed_data, message, exc, connected,
                   published, handed, delay, party_data, threshold, bar_chart>>

\* lines 197-198
HandleException ==
    /\ pc = "except"
    /\ pc' = "sleep"
    /\ UNCHANGED <<election_data, processed_data, message, exc, connected, leaked,
                   published, handed, delay, party_data, threshold, bar_chart>>

\* lines 200-201 and the jump back to line 183: the next cycle builds
\* everything anew, nothing of the finished cycle is read again
Sleep ==
    /\ pc = "sleep"
    /\ delay' = SleepSeconds
    /\ pc' = "fetch"
    /\ election_data' = Unset
    /\ processed_data' = Unset
    /\ message' = Unset
    /\ exc' = None
    /\ published' = <<>>
    /\ handed' = <<>>
    /\ party_data' = <<>>
    /\ bar_chart' = Unset
    /\ UNCHANGED <<connected, leaked, threshold>>

Next ==
    \/ Fetch
    \/ Process
    \/ Generate
    \/ Connect
    \/ OnConnect
    \/ Hang
    \/ Finalize
    \/ HandleException
    \/ Sleep

Spec == Init /\ [][Next]_vars

-----------------------------------------------------------------------------
(* generate_bar_chart on its own, for any party list and threshold *)

Thresholds == {0, 5, 7}

Colors == {"FF0000", "0000FF"}

PartyResults ==
    {[name |-> "A", percentage |-> p, color |-> c] : p \in Percentages, c \in Colors}

PartyLists == SeqsUpTo(PartyResults, MaxParties)

RenderInit ==
    /\ pc = "render"
    /\ party_data \in PartyLists
    /\ threshold \in Thresholds
    /\ bar_chart = Unset
    /\ election_data = Unset
    /\ processed_data = Unset
    /\ message = Unset
    /\ exc = None
    /\ connected = FALSE
    /\ leaked = FALSE
    /\ published = <<>>
    /\ handed = <<>>
    /\ delay = 0

RenderBars ==
    /\ pc = "render"
    /\ bar_chart' = generate_bar_chart(party_data, threshold)
    /\ pc' = "rendered"
    /\ UNCHANGED <<election_data, processed_data, message, exc, connected, leaked,
                   published, handed, delay, party_data, threshold>>

RenderSpec == RenderInit /\ [][RenderBars]_vars

-----------------------------------------------------------------------------
(* What the formulas below read off a state. *)

\* the cycle has got past process_election_data
PastProcess == pc \in {"generate", "send", "loop_forever", "except", "sleep", "hung"}

\* process_election_data returned a snapshot in this cycle
HasSnapshot == processed_data # Unset /\ processed_data # NoData

\* the document carries election.contest[0].results_overall.latest
HasLatest(doc) ==
    /\ "election" \in DOMAIN doc
    /\ "contest" \in DOMAIN doc.election
    /\ Len(doc.election.contest) > 0
    /\ "results_overall" \in DOMAIN doc.election.contest[1]
    /\ "latest" \in DOMAIN doc.election.contest[1].results_overall

LatestOf(doc) == doc.election.contest[1].results_overall.latest

\* the status_date field is there and not empty
HasStatusDate(doc) ==
    /\ HasLatest(doc)
    /\ "status_date" \in DOMAIN LatestOf(doc)
    /\ LatestOf(doc).status_date # ""

Count(seq, Test(_)) == Cardinality({i \in 1..Len(seq) : Test(seq[i])})

-----------------------------------------------------------------------------
(* C1 *)

\* C1: every failure raised by fetch, parse, packet generation or publish is
\* caught inside its cycle and never ends the loop; from the handler the loop
\* can only go on to the delay, from the delay only to the next cycle, after
\* 300 seconds, and in both places it is able to go on.
C1_FailureNeverEndsLoop ==
    /\ [](exc # None => pc \in {"except", "sleep"})
    /\ [](pc # "terminated")
    /\ [](pc \in {"except", "sleep"} => ENABLED (HandleException \/ Sleep))
    /\ [][(pc = "except" /\ pc' # pc) => pc' = "sleep"]_vars
    /\ [][(pc = "sleep" /\ pc' # pc) => (pc' = "fetch" /\ delay' = 300)]_vars

\* a failed publish has been caught and the loop is at its delay
C1_Witness == pc = "sleep" /\ exc = "ValueError" /\ Len(handed) = 1

-----------------------------------------------------------------------------
(* C2 *)

\* C2: at the end of every cycle in which fetch and parse completed without
\* raising, exactly one packet has been handed to the publish step: the
\* fallback packet if and only if parse returned no data, otherwise the
\* packet assembled from the snapshot (draw, text, textOffset 8).
C2_OnePacketHanded ==
    (pc = "sleep" /\ processed_data # Unset) =>
        /\ Len(handed) = 1
        /\ (handed[1] = NoDataMessage) <=> (processed_data = NoData)
        /\ processed_data # NoData =>
              /\ DOMAIN handed[1] = {"draw", "text", "textOffset"}
              /\ handed[1].textOffset = 8
              /\ Len(handed[1].text) = 1 + Len(processed_data.parties)

-----------------------------------------------------------------------------
(* C3 *)

\* C3: once the publish step of a cycle is over, on success or on failure,
\* the connection it opened is closed, and none is open when the next cycle
\* begins; a publish step that ends without failure has sent exactly one
\* message.
C3_ConnectionReleased ==
    /\ (pc \in {"except", "sleep", "fetch"}) => (~connected /\ ~leaked)
    /\ (pc = "sleep" /\ Len(handed) = 1 /\ exc = None) => Len(published) = 1

-----------------------------------------------------------------------------
(* C4 *)

\* C4: for every raw document without a (non-empty) status_date at
\* election.contest[0].results_overall.latest, process_election_data returns
\* None and does not raise.
C4_AbsentStatusDateGivesNoData ==
    (PastProcess /\ election_data # Unset /\ ~HasStatusDate(election_data)) =>
        /\ processed_data = NoData
        /\ exc \notin {"IndexError", "ParserError"}

-----------------------------------------------------------------------------
(* C5 *)

\* C5: the parties of a snapshot are in descending order of percentage, and
\* the entries of one percentage are in the order in which the results list
\* gave them.
C5_SortedDescendingStable ==
    HasSnapshot =>
        LET parties == processed_data.parties
            source == CollectParties(<<>>, LatestOf(election_data).results, election_data)
        IN /\ \A i \in 1..Len(parties) - 1 :
                  parties[i].percentage >= parties[i + 1].percentage
           /\ \A v \in Percentages :
                  LET IsV(x) == x.percentage = v
                  IN SelectSeq(parties, IsV) = SelectSeq(source, IsV)

\* a snapshot of two different parties of one percentage, kept in the order
\* of the results list
C5_Witness ==
    /\ HasSnapshot
    /\ Len(processed_data.parties) = 2
    /\ processed_data.parties[1].percentage = processed_data.parties[2].percentage
    /\ processed_data.parties[1].name = "B"
    /\ processed_data.parties[2].name = ""
    /\ LatestOf(election_data).results[1].target_id = "p1"
    /\ LatestOf(election_data).results[2].target_id = "p2"

-----------------------------------------------------------------------------
(* C6 *)

CatalogIds(doc) == {doc.parties[i].id : i \in 1..Len(doc.parties)}

\* the percentage the claim gives a contributing entry
ClaimedPercentage(r) ==
    IF Len(r.percent) > 0 /\ "value" \in DOMAIN r.percent[1]
           /\ "absolute" \in DOMAIN r.percent[1].value
    THEN r.percent[1].value.absolute
    ELSE 0

\* the parties of a snapshot match, one to one, the result entries that
\* Contributes selects: as many, and as many of each percentage
MatchesEntries(Contributes(_)) ==
    LET parties == processed_data.parties
        entries == SelectSeq(LatestOf(election_data).results, Contributes)
    IN /\ Len(parties) = Len(entries)
       /\ \A v \in Percentages :
              LET PartyIsV(x) == x.percentage = v
                  EntryIsV(r) == ClaimedPercentage(r) = v
              IN Count(parties, PartyIsV) = Count(entries, EntryIsV)

\* C6 as stated: the parties of a snapshot correspond one to one to the
\* result entries with target "parties", a percent list and a target_id found
\* in the catalog; a present list without value.absolute counts as 0.
C6_EntriesWithPercentList ==
    HasSnapshot =>
        LET Contributes(r) ==
                /\ r.target = "parties"
                /\ "percent" \in DOMAIN r
                /\ r.target_id \in CatalogIds(election_data)
        IN MatchesEntries(Contributes)

\* C6 amended: the parties of a snapshot correspond one to one to the result
\* entries with target "parties", a non-empty percent list and a target_id
\* found in the catalog; an entry whose percent list is absent or empty, or
\* whose id is not in the catalog, is dropped; a first percent element
\* without value.absolute, or with 0, counts as 0.
C6_EntriesWithNonEmptyPercentList ==
    HasSnapshot =>
        LET Contributes(r) ==
                /\ r.target = "parties"
                /\ "percent" \in DOMAIN r
                /\ Len(r.percent) > 0
                /\ r.target_id \in CatalogIds(election_data)
        IN MatchesEntries(Contributes)

\* a snapshot of two results: one without a percent list or with an id the
\* catalog lacks, dropped, and one with a percent list without a value, kept
\* with 0
C6_Witness ==
    /\ HasSnapshot
    /\ Len(LatestOf(election_data).results) = 2
    /\ LatestOf(election_data).results[1].target = "parties"
    /\ \/ "percent" \notin DOMAIN LatestOf(election_data).results[1]
       \/ LatestOf(election_data).results[1].target_id \notin CatalogIds(election_data)
    /\ "percent" \in DOMAIN LatestOf(election_data).results[2]
    /\ LatestOf(election_data).results[2].percent = <<EmptyDict>>
    /\ Len(processed_data.parties) = 1
    /\ processed_data.parties[1].percentage = 0

-----------------------------------------------------------------------------
(* C7, C8, C9: generate_bar_chart *)

Rendered == pc = "rendered"

\* the rectangle of the bar and of the indicator of party i (0-based)
BarOf(i) == bar_chart.value[2 + 2 * i].df

IndicatorOf(i) == bar_chart.value[3 + 2 * i].df

\* C7: for n parties with non-negative percentages generate_bar_chart does
\* not fail; it returns nothing for n = 0 and otherwise 1 + 2n rectangles,
\* the black background [0, 0, 20, 8, "000000"] first, then for each party in
\* input order its bar (in its colour) and its indicator (1 wide).
C7_BackgroundThenTwoPerParty ==
    Rendered =>
        LET n == Len(party_data)
        IN /\ ~bar_chart.raised
           /\ Len(bar_chart.value) = IF n = 0 THEN 0 ELSE 1 + 2 * n
           /\ n > 0 => bar_chart.value[1].df = <<0, 0, 20, 8, "000000">>
           /\ \A i \in 0..n - 1 :
                  /\ BarOf(i)[5] = party_data[i + 1].color
                  /\ IndicatorOf(i)[3] = 1

\* C8: when the largest percentage is positive, the bar of party i is
\* [0, i * floor(8 / n), ceil(percentage / max * 20), floor(8 / n), colour]:
\* the width is an integer from 0 to 20, 20 for a party with the largest
\* percentage, and no bar reaches below row 8.
C8_BarGeometry ==
    (Rendered /\ Len(party_data) > 0 /\ \E k \in 1..Len(party_data) : party_data[k].percentage > 0) =>
        LET n == Len(party_data)
        IN /\ ~bar_chart.raised
           /\ \A i \in 0..n - 1 :
                  LET bar == BarOf(i)
                      p == party_data[i + 1].percentage
                  IN /\ bar[1] = 0
                     /\ bar[5] = party_data[i + 1].color
                     /\ bar[4] \in 0..8
                     /\ bar[4] * n <= 8 /\ 8 < (bar[4] + 1) * n
                     /\ bar[2] = i * bar[4]
                     /\ bar[2] + bar[4] <= 8
                     /\ bar[3] \in 0..20
                     /\ \A k \in 1..n :
                            (\A j \in 1..n : party_data[j].percentage <= party_data[k].percentage)
                                => /\ bar[3] * party_data[k].percentage >= 20 * p
                                   /\ (bar[3] - 1) * party_data[k].percentage < 20 * p
                                   /\ (p = party_data[k].percentage => bar[3] = 20)

\* three parties, one of them with 5 of a largest 7: 20 * 5 / 7 is no integer
C8_Witness ==
    /\ Rendered
    /\ Len(party_data) = 3
    /\ party_data[1].percentage = 5
    /\ party_data[2].percentage = 7
    /\ party_data[3].percentage = 0
    /\ ~bar_chart.raised
    /\ BarOf(0)[3] = 15
    /\ BarOf(2) = <<0, 4, 0, 2, party_data[3].color>>

-----------------------------------------------------------------------------
(* C10 *)

\* C10: a cycle in which fetch fails, parse raises (a status_date that is
\* there but malformed) or packet generation raises publishes nothing and
\* hands nothing to the publish step, and goes on to the delay; the fallback
\* packet is published only when parse returned no data.
C10_FailedCyclePublishesNothing ==
    /\ exc \in {"Exception", "IndexError", "ParserError", "ZeroDivisionError"} =>
           /\ published = <<>>
           /\ handed = <<>>
           /\ pc \in {"except", "sleep"}
    /\ (election_data # Unset /\ HasStatusDate(election_data)
            /\ LatestOf(election_data).status_date = BadDate) =>
           /\ published = <<>>
           /\ handed = <<>>
           /\ PastProcess => (exc = "ParserError" /\ pc \in {"except", "sleep"})
    /\ \A i \in 1..Len(published) :
           published[i] = NoDataMessage => processed_data = NoData

\* a cycle whose status_date was malformed is at its delay, nothing published
C10_Witness ==
    /\ pc = "sleep"
    /\ exc = "ParserError"
    /\ published = <<>>
    /\ Len(LatestOf(election_data).results) = 2

====
